---- MODULE Spec2Model ----
(***************************************************************************)
(* A model of job_scraper.py (class JobScraper): the listing locator and   *)
(* the per-field extraction cascades of scrape_jobs, the URL and company   *)
(* helpers, the readiness wait and run().                                  *)
(*                                                                         *)
(* Python strings are sequences of one-character strings, so that split,   *)
(* replace, strip, lower and the CSS substring test [class*="x"] are       *)
(* computed and not assumed.  A parsed page is a tree in document order:   *)
(* node i has parent[i] < i (0 is the BeautifulSoup object itself) and     *)
(* element elem[i]; nodes 1 and 2 are the html and body elements the lxml  *)
(* parser puts around the content.  An element's own text is taken to come *)
(* before its children.                                                    *)
(***************************************************************************)
EXTENDS Integers, Sequences, FiniteSets, TLC

VARIABLES
    pc,            \* where the modelled call stands
    url,           \* the source URL being scraped
    page,          \* the DOM: the live page while waiting, then the parsed soup
    el,            \* the element a field extractor is applied to
    ret,           \* what the modelled call returned
    job_elements,  \* scrape_jobs: the candidate set
    located,       \* scrape_jobs: the strategy that produced job_elements
    raised,        \* scrape_jobs: whether `except Exception` was taken
    wi,            \* readiness wait: index of the selector waited for
    waited,        \* readiness wait: the selector it succeeded on, 0 for none
    changes,       \* DOM mutations since the wait began
    urls,          \* run: the career_urls of the config file
    cursor,        \* run: index of the next url
    scraped,       \* run: the urls handed to scrape_jobs so far
    jobs_data,     \* self.jobs_data
    saved          \* the calls of save_to_csv so far

vars == <<pc, url, page, el, ret, job_elements, located, raised,
          wi, waited, changes, urls, cursor, scraped, jobs_data, saved>>

\* ------------------------------------------------------------ bounds
\* Nodes of a freely shaped page.
MaxNodes == 2
\* Elements of a flat page of competing structural matches.
MaxFlat == 3
\* Candidate listings of a listing page (each with at most one child).
MaxListings == 3
\* Rule-bearing children of the element a field cascade is applied to.
MaxChildren == 2
\* Elements on the chain from the document to the element whose URL is extracted.
MaxDepth == 5
\* Host labels of a source URL.
MaxLabels == 3
\* DOM mutations the page performs while the readiness wait runs.
MaxChanges == 2
\* Elements of the live DOM during the readiness wait.
MaxLive == 2
\* Career URLs in the config file.
MaxUrls == 3

\* ------------------------------------------------------------ strings
Range(s) == {s[i] : i \in 1..Len(s)}

Min(S) == CHOOSE x \in S : \A y \in S : x <= y

\* str.strip() and get_text(strip=True) remove these.
Whitespace == {" ", "\t", "\n"}

UpperCase == <<"A","B","C","D","E","F","G","H","I","J","K","L","M","N","O","P","Q","R","S","T","U","V","W","X","Y","Z">>

LowerCase == <<"a","b","c","d","e","f","g","h","i","j","k","l","m","n","o","p","q","r","s","t","u","v","w","x","y","z">>

LowerChar(c) ==
    IF \E i \in 1..26 : UpperCase[i] = c
    THEN LowerCase[CHOOSE i \in 1..26 : UpperCase[i] = c] ELSE c

UpperChar(c) ==
    IF \E i \in 1..26 : LowerCase[i] = c
    THEN UpperCase[CHOOSE i \in 1..26 : LowerCase[i] = c] ELSE c

\* str.lower()
Lower(s) == [i \in 1..Len(s) |-> LowerChar(s[i])]

\* str.capitalize(): first character upper-cased, the rest lower-cased.
Capitalize(s) ==
    [i \in 1..Len(s) |-> IF i = 1 THEN UpperChar(s[i]) ELSE LowerChar(s[i])]

\* Positions at which t occurs in s.
Occurrences(s, t) ==
    {i \in 1..(Len(s) + 1) : i + Len(t) - 1 <= Len(s)
                             /\ SubSeq(s, i, i + Len(t) - 1) = t}

\* Python's `t in s` for strings.
Contains(s, t) == Occurrences(s, t) # {}

StartsWith(s, t) == Len(t) <= Len(s) /\ SubSeq(s, 1, Len(t)) = t

\* str.strip()
Strip(s) ==
    LET keep == {i \in 1..Len(s) : s[i] \notin Whitespace}
    IN  IF keep = {} THEN <<>>
        ELSE SubSeq(s, Min(keep), CHOOSE j \in keep : \A k \in keep : k <= j)

RECURSIVE Split(_, _)
\* str.split(sep) for a non-empty sep: the pieces between occurrences, left to right.
Split(s, sep) ==
    IF Occurrences(s, sep) = {} THEN <<s>>
    ELSE LET i == Min(Occurrences(s, sep))
         IN  <<SubSeq(s, 1, i - 1)>> \o Split(SubSeq(s, i + Len(sep), Len(s)), sep)

RECURSIVE Replace(_, _, _)
\* str.replace(old, new): every non-overlapping occurrence, left to right.
Replace(s, old, new) ==
    IF Occurrences(s, old) = {} THEN s
    ELSE LET i == Min(Occurrences(s, old))
         IN  SubSeq(s, 1, i - 1) \o new
             \o Replace(SubSeq(s, i + Len(old), Len(s)), old, new)

RECURSIVE Join(_, _)
\* sep.join(parts)
Join(parts, sep) ==
    IF parts = <<>> THEN <<>>
    ELSE IF Len(parts) = 1 THEN parts[1]
    ELSE parts[1] \o sep \o Join(Tail(parts), sep)

RECURSIVE Concat(_)
Concat(parts) == IF parts = <<>> THEN <<>> ELSE parts[1] \o Concat(Tail(parts))

\* The absent value of date_posted; no Python string equals it.
None == <<"<None>">>

\* ------------------------------------------------------------ the parsed page
\* An element: tag name, class list, the names of its other attributes, the
\* value of href (read only when "href" is an attribute), its own text, and
\* whether the browser renders it (BeautifulSoup never reads that).
Elem(tag, cls, attrs, href, text) ==
    [tag |-> tag, cls |-> cls, attrs |-> attrs, href |-> href, text |-> text,
     visible |-> TRUE]

Hidden(e) == [e EXCEPT !.visible = FALSE]

EmptyPage == [n |-> 0, parent |-> <<>>, elem |-> <<>>]

\* BeautifulSoup(content, 'lxml'): the content under html and body.
Wrap(content) ==
    [n |-> content.n + 2,
     parent |-> <<0, 1>> \o [i \in 1..content.n |->
                                IF content.parent[i] = 0 THEN 2
                                ELSE content.parent[i] + 2],
     elem |-> << Elem("html", <<>>, {}, <<>>, <<>>),
                 Elem("body", <<>>, {}, <<>>, <<>>) >> \o content.elem]

\* The number of elements of the content.
ContentSize(pg) == pg.n - 2

RECURSIVE Ancestors(_, _)
\* Tag.parent, repeatedly: the ancestors of node i, the document (0) included.
Ancestors(pg, i) ==
    IF i <= 0 THEN {} ELSE {pg.parent[i]} \union Ancestors(pg, pg.parent[i])

\* Tag.descendants (the node itself is not one of them).
Descendants(pg, i) == {j \in 1..pg.n : i \in Ancestors(pg, j)}

RECURSIVE InOrder(_)
\* A set of nodes in document order.
InOrder(S) == IF S = {} THEN <<>> ELSE <<Min(S)>> \o InOrder(S \ {Min(S)})

\* The value of the class attribute as CSS attribute selectors read it.
ClassAttr(e) == Join(e.cls, <<" ">>)

\* A CSS selector of the forms the scraper uses: tag names (none: any tag),
\* [class*="sub"], .token, [attr]; src is the selector string itself.
Selector(src, tags, sub, tok, attr) ==
    [src |-> src, tags |-> tags, sub |-> sub, tok |-> tok, attr |-> attr]

Matches(e, sel) ==
    /\ sel.tags = {} \/ e.tag \in sel.tags
    /\ sel.sub = <<>> \/ (e.cls # <<>> /\ Contains(ClassAttr(e), sel.sub))
    /\ sel.tok = <<>> \/ sel.tok \in Range(e.cls)
    /\ sel.attr = "" \/ sel.attr \in e.attrs

\* Tag.select(selector): every matching descendant of node i, in document order.
Select(pg, i, sel) ==
    InOrder({j \in Descendants(pg, i) : Matches(pg.elem[j], sel)})

\* Tag.select_one(selector): the first match, 0 for None.
SelectOne(pg, i, sel) ==
    LET m == {j \in Descendants(pg, i) : Matches(pg.elem[j], sel)}
    IN  IF m = {} THEN 0 ELSE Min(m)

\* Tag.find(name): the first descendant whose tag name is in names, 0 for None.
Find(pg, i, names) ==
    LET m == {j \in Descendants(pg, i) : pg.elem[j].tag \in names}
    IN  IF m = {} THEN 0 ELSE Min(m)

\* Tag.get_text(): the strings of the node and of its descendants, concatenated.
GetText(pg, i) ==
    LET nodes == InOrder({i} \union Descendants(pg, i))
    IN  Concat([k \in 1..Len(nodes) |-> pg.elem[nodes[k]].text])

\* Tag.get_text(strip=True): each string stripped, the empty ones dropped.
GetTextStrip(pg, i) ==
    LET nodes == InOrder({i} \union Descendants(pg, i))
    IN  Concat([k \in 1..Len(nodes) |-> Strip(pg.elem[nodes[k]].text)])

\* ------------------------------------------------------------ listing locator
DivSub(src, sub) == Selector(src, {"div"}, sub, <<>>, "")

Cls(src, tok) == Selector(src, {}, <<>>, tok, "")

Sub(src, sub) == Selector(src, {}, sub, <<>>, "")

Attr(src, attr) == Selector(src, {}, <<>>, <<>>, attr)

Tags(src, tags) == Selector(src, tags, <<>>, <<>>, "")

\* The 13 structural selectors of scrape_jobs, in list order.
selectors ==
    << DivSub("div[class*=\"job-\"]", <<"j","o","b","-">>),
       DivSub("div[class*=\"career-\"]", <<"c","a","r","e","e","r","-">>),
       DivSub("div[class*=\"position-\"]", <<"p","o","s","i","t","i","o","n","-">>),
       Cls(".job-listing", <<"j","o","b","-","l","i","s","t","i","n","g">>),
       Cls(".careers-list", <<"c","a","r","e","e","r","s","-","l","i","s","t">>),
       Cls(".jobs-list", <<"j","o","b","s","-","l","i","s","t">>),
       Cls(".positions-list", <<"p","o","s","i","t","i","o","n","s","-","l","i","s","t">>),
       Cls(".job-posting", <<"j","o","b","-","p","o","s","t","i","n","g">>),
       Cls(".career-posting", <<"c","a","r","e","e","r","-","p","o","s","t","i","n","g">>),
       Cls(".position-posting", <<"p","o","s","i","t","i","o","n","-","p","o","s","t","i","n","g">>),
       Cls(".jobs-list-item", <<"j","o","b","s","-","l","i","s","t","-","i","t","e","m">>),
       Cls(".career-opportunities", <<"c","a","r","e","e","r","-","o","p","p","o","r","t","u","n","i","t","i","e","s">>),
       Cls(".vacancy-item", <<"v","a","c","a","n","c","y","-","i","t","e","m">>) >>

NSelectors == Len(selectors)

\* located: which strategy produced job_elements.
ByNothing == 0

ByPatternA == NSelectors + 1

ByPatternB == NSelectors + 2

Headings == {"h1", "h2", "h3", "h4", "h5", "h6"}

keywords == {<<"j","o","b">>, <<"c","a","r","e","e","r">>, <<"p","o","s","i","t","i","o","n">>, <<"v","a","c","a","n","c","y">>, <<"o","p","e","n","i","n","g">>}

\* A faulty variant of SelectorFrom: the loop without its break, so that the
\* matches of the last selector are what it leaves in job_elements.
SelectorFromNoBreak(pg, k) ==
    LET m == Select(pg, 0, selectors[NSelectors])
    IN  [by |-> IF m # <<>> THEN NSelectors ELSE ByNothing, elems |-> m]

\* A faulty variant of SelectorFrom: keeps only the first element a selector
\* matches.
RECURSIVE SelectorFromFirstOnly(_, _)
SelectorFromFirstOnly(pg, k) ==
    IF k > NSelectors THEN [by |-> ByNothing, elems |-> <<>>]
    ELSE LET m == Select(pg, 0, selectors[k])
         IN  IF m # <<>> THEN [by |-> k, elems |-> <<m[1]>>]
             ELSE SelectorFromFirstOnly(pg, k + 1)

RECURSIVE SelectorFrom(_, _)
\* The loop over selectors from the k-th on: the first selector whose
\* soup.select is non-empty ends it.
SelectorFrom(pg, k) ==
    IF k > NSelectors THEN [by |-> ByNothing, elems |-> <<>>]
    ELSE LET m == Select(pg, 0, selectors[k])
         IN  IF m # <<>> THEN [by |-> k, elems |-> m]
             ELSE SelectorFrom(pg, k + 1)

\* patterns[0]: a div, article or li one of whose class names, or whose whole
\* lowercased text, IS one of the keywords (list membership, not substring).
PatternA(pg, j) ==
    /\ pg.elem[j].tag \in {"div", "article", "li"}
    /\ \E kw \in keywords :
          kw \in Range(pg.elem[j].cls \o <<Lower(GetText(pg, j))>>)

\* patterns[1]: a tag with a heading among its descendants.
PatternB(pg, j) == Find(pg, j, Headings) # 0

\* soup.find_all(patterns[0]): every tag of the soup the pattern accepts.
FindAllA(pg) == InOrder({j \in 1..pg.n : PatternA(pg, j)})

\* soup.find_all(patterns[1])
FindAllB(pg) == InOrder({j \in 1..pg.n : PatternB(pg, j)})

\* A faulty variant of PatternFallback: falls back to every element of the
\* page.
PatternFallbackAll(pg) ==
    [by |-> ByPatternB, elems |-> InOrder(1..pg.n)]

\* The loop over patterns: the first one find_all answers non-empty ends it.
PatternFallback(pg) ==
    IF FindAllA(pg) # <<>>
    THEN [by |-> ByPatternA, elems |-> FindAllA(pg)]
    ELSE IF FindAllB(pg) # <<>>
    THEN [by |-> ByPatternB, elems |-> FindAllB(pg)]
    ELSE [by |-> ByNothing, elems |-> <<>>]

\* job_elements as scrape_jobs computes it from the parsed page.
LocateListings(pg) ==
    LET c == SelectorFrom(pg, 1)
    IN  IF c.elems # <<>> THEN c ELSE PatternFallback(pg)

\* ------------------------------------------------------------ field extractor
\* _extract_text: select_one first, then find by tag name with the selector
\* string itself; the stripped text of what was found, "" when nothing was.
ExtractText(pg, i, sel) ==
    LET first == SelectOne(pg, i, sel)
        found == IF first = 0 THEN Find(pg, i, {sel.src}) ELSE first
    IN  IF found # 0 THEN GetTextStrip(pg, found) ELSE <<>>

title_selectors ==
    << Tags("h1, h2, h3, h4, h5, h6", Headings),
       Sub("[class*=\"title\"]", <<"t","i","t","l","e">>),
       Sub("[class*=\"position\"]", <<"p","o","s","i","t","i","o","n">>),
       Sub("[class*=\"role\"]", <<"r","o","l","e">>),
       Sub("[class*=\"job-name\"]", <<"j","o","b","-","n","a","m","e">>),
       Tags("a", {"a"}) >>

location_selectors ==
    << Sub("[class*=\"location\"]", <<"l","o","c","a","t","i","o","n">>),
       Sub("[class*=\"place\"]", <<"p","l","a","c","e">>),
       Sub("[class*=\"city\"]", <<"c","i","t","y">>),
       Sub("[class*=\"region\"]", <<"r","e","g","i","o","n">>),
       Attr("[data-location]", "data-location"),
       Sub("[class*=\"address\"]", <<"a","d","d","r","e","s","s">>) >>

desc_selectors ==
    << Sub("[class*=\"description\"]", <<"d","e","s","c","r","i","p","t","i","o","n">>),
       Sub("[class*=\"summary\"]", <<"s","u","m","m","a","r","y">>),
       Sub("[class*=\"details\"]", <<"d","e","t","a","i","l","s">>),
       Sub("[class*=\"content\"]", <<"c","o","n","t","e","n","t">>),
       Tags("p", {"p"}) >>

date_selectors ==
    << Sub("[class*=\"date\"]", <<"d","a","t","e">>),
       Sub("[class*=\"posted\"]", <<"p","o","s","t","e","d">>),
       Sub("[class*=\"published\"]", <<"p","u","b","l","i","s","h","e","d">>),
       Tags("time", {"time"}),
       Attr("[datetime]", "datetime") >>

dept_selectors ==
    << Sub("[class*=\"department\"]", <<"d","e","p","a","r","t","m","e","n","t">>),
       Sub("[class*=\"team\"]", <<"t","e","a","m">>),
       Sub("[class*=\"category\"]", <<"c","a","t","e","g","o","r","y">>),
       Sub("[class*=\"function\"]", <<"f","u","n","c","t","i","o","n">>) >>

type_selectors ==
    << Sub("[class*=\"type\"]", <<"t","y","p","e">>),
       Sub("[class*=\"employment\"]", <<"e","m","p","l","o","y","m","e","n","t">>),
       Sub("[class*=\"contract\"]", <<"c","o","n","t","r","a","c","t">>),
       Sub("[class*=\"work-type\"]", <<"w","o","r","k","-","t","y","p","e">>) >>

\* A faulty variant of FirstText: the last rule that yields text wins.
RECURSIVE FirstTextLastWins(_, _, _, _, _)
FirstTextLastWins(pg, i, rules, k, absent) ==
    IF k > Len(rules) THEN absent
    ELSE LET t == ExtractText(pg, i, rules[k])
             later == FirstTextLastWins(pg, i, rules, k + 1, absent)
         IN  IF later # absent THEN later
             ELSE IF t # <<>> THEN Strip(t) ELSE absent

RECURSIVE FirstText(_, _, _, _, _)
\* The loop every _extract_<field> runs over its selectors from the k-th on:
\* the first selector whose _extract_text is non-empty returns it stripped.
FirstText(pg, i, rules, k, absent) ==
    IF k > Len(rules) THEN absent
    ELSE LET t == ExtractText(pg, i, rules[k])
         IN  IF t # <<>> THEN Strip(t)
             ELSE FirstText(pg, i, rules, k + 1, absent)

extract_job_title(pg, i) == FirstText(pg, i, title_selectors, 1, <<>>)

extract_location(pg, i) == FirstText(pg, i, location_selectors, 1, <<>>)

extract_description(pg, i) == FirstText(pg, i, desc_selectors, 1, <<>>)

extract_date_posted(pg, i) == FirstText(pg, i, date_selectors, 1, None)

extract_department(pg, i) == FirstText(pg, i, dept_selectors, 1, <<>>)

extract_employment_type(pg, i) == FirstText(pg, i, type_selectors, 1, <<>>)

\* ------------------------------------------------------------ url and company
\* What a call ends with: a returned value, or an exception that leaves it.
Returned(v) == [exc |-> "", val |-> v]

Raised(e) == [exc |-> e, val |-> <<>>]

\* The scheme of an http(s) reference, "" when it has none.
SchemeOf(u) ==
    IF StartsWith(u, <<"h","t","t","p","s",":">>) THEN <<"h","t","t","p","s">>
    ELSE IF StartsWith(u, <<"h","t","t","p",":">>) THEN <<"h","t","t","p">> ELSE <<>>

\* What follows the scheme and its colon.
AfterScheme(u) ==
    IF SchemeOf(u) = <<>> THEN u ELSE SubSeq(u, Len(SchemeOf(u)) + 2, Len(u))

\* The authority of a reference that has one: between "//" and the next "/".
NetlocOf(u) ==
    IF StartsWith(AfterScheme(u), <<"/","/">>)
    THEN Split(SubSeq(AfterScheme(u), 3, Len(AfterScheme(u))), <<"/">>)[1]
    ELSE <<>>

\* The path: what follows the authority.
PathOf(u) ==
    LET r == AfterScheme(u)
    IN  IF StartsWith(r, <<"/","/">>)
        THEN SubSeq(r, 3 + Len(NetlocOf(u)), Len(r)) ELSE r

\* urlsplit raises ValueError("Invalid IPv6 URL") on an authority with one
\* bracket and not the other.
InvalidNetloc(n) == ("[" \in Range(n)) # ("]" \in Range(n))

\* The directory of a path: up to and with its last "/".
DirOf(p) ==
    LET slashes == {i \in 1..Len(p) : p[i] = "/"}
    IN  IF slashes = {} THEN <<"/">>
        ELSE SubSeq(p, 1, CHOOSE i \in slashes : \A j \in slashes : j <= i)

\* urllib.parse.urljoin(base, u) for http(s) bases and references without
\* dot segments, query or fragment: empty, absolute, protocol-relative,
\* root-relative and relative references.
urljoin(base, u) ==
    LET origin == SchemeOf(base) \o <<":","/","/">> \o NetlocOf(base)
    IN  IF u = <<>> THEN Returned(base)
        ELSE IF StartsWith(AfterScheme(u), <<"/","/">>)
        THEN IF InvalidNetloc(NetlocOf(u)) THEN Raised("ValueError")
             ELSE IF SchemeOf(u) = <<>>
             THEN Returned(SchemeOf(base) \o <<":">> \o u)
             ELSE Returned(u)
        ELSE IF SchemeOf(u) # <<>> THEN Returned(u)
        ELSE IF StartsWith(u, <<"/">>) THEN Returned(origin \o u)
        ELSE Returned(origin \o DirOf(PathOf(base)) \o u)

\* range(3): the ancestor levels _extract_job_url looks at.
AncestorLevels == 3

\* None, as the parent of the BeautifulSoup object.
NoTag == -1

\* Tag.parent
ParentOf(pg, i) == IF i <= 0 THEN NoTag ELSE pg.parent[i]

\* `link = x.find('a')` followed by `if link and 'href' in link.attrs`: the
\* first anchor under x when that anchor carries an href, else 0.
LinkIn(pg, x) ==
    LET a == Find(pg, x, {"a"})
    IN  IF a # 0 /\ "href" \in pg.elem[a].attrs THEN a ELSE 0

RECURSIVE WalkUp(_, _, _)
\* The for loop over the ancestors, `left` levels to go; `if parent:` skips
\* the body once parent is None.
WalkUp(pg, parent, left) ==
    IF left = 0 THEN 0
    ELSE IF parent = NoTag THEN WalkUp(pg, parent, left - 1)
    ELSE IF LinkIn(pg, parent) # 0 THEN LinkIn(pg, parent)
    ELSE WalkUp(pg, ParentOf(pg, parent), left - 1)

\* _extract_job_url: the except clause catches AttributeError and TypeError
\* only, which nothing here raises; urljoin's ValueError leaves the function.
extract_job_url(pg, i, base_url) ==
    LET direct == LinkIn(pg, i)
        link == IF direct # 0 THEN direct
                ELSE WalkUp(pg, ParentOf(pg, i), AncestorLevels)
    IN  IF link = 0 THEN Returned(<<>>)
        ELSE urljoin(base_url, pg.elem[link].href)

\* _extract_company_name: url.split('//')[1] raises IndexError on a string
\* without "//", and the bare except returns the url.
extract_company_name(u) ==
    IF Len(Split(u, <<"/","/">>)) < 2 THEN u
    ELSE LET domain == Split(Split(u, <<"/","/">>)[2], <<"/">>)[1]
             company == Split(Replace(domain, <<"w","w","w",".">>, <<>>), <<".">>)[1]
         IN  Capitalize(company)

\* ------------------------------------------------------------ scrape_jobs
\* job_data of one candidate, given its resolved url; scraped_date, the wall
\* clock, is left out.
JobData(pg, j, u, job_url) ==
    [company |-> extract_company_name(u),
     title |-> extract_job_title(pg, j),
     location |-> extract_location(pg, j),
     description |-> extract_description(pg, j),
     url |-> job_url,
     source_url |-> u,
     date_posted |-> extract_date_posted(pg, j),
     department |-> extract_department(pg, j),
     employment_type |-> extract_employment_type(pg, j)]

RECURSIVE ExtractFrom(_, _, _, _, _)
\* The loop over job_elements from the k-th on, inside the try of scrape_jobs:
\* an exception leaving a field extractor reaches `except Exception`, which
\* returns [] for the whole page.
ExtractFrom(pg, elems, k, u, jobs) ==
    IF k > Len(elems) THEN [raised |-> FALSE, jobs |-> jobs]
    ELSE LET o == extract_job_url(pg, elems[k], u)
             job_data == JobData(pg, elems[k], u, o.val)
         IN  IF o.exc # "" THEN [raised |-> TRUE, jobs |-> <<>>]
             ELSE ExtractFrom(pg, elems, k + 1, u,
                      IF job_data.title # <<>> THEN Append(jobs, job_data)
                      ELSE jobs)

\* scrape_jobs on the parsed content of the page at u.
scrape_jobs(pg, u) == ExtractFrom(pg, LocateListings(pg).elems, 1, u, <<>>)

\* ------------------------------------------------------------ input pages
RECURSIVE OnRightmostPath(_, _, _)
\* Whether node a is i itself or one of its ancestors under the parent vector p.
OnRightmostPath(p, i, a) ==
    IF a = i THEN TRUE ELSE IF i = 0 THEN FALSE ELSE OnRightmostPath(p, p[i], a)

\* The parent vectors of the trees with n nodes numbered in document order.
ParentVectors(n) ==
    {p \in [1..n -> 0..n] :
        \A i \in 1..n : /\ p[i] < i
                        /\ i > 1 => OnRightmostPath(p, i - 1, p[i])}

\* Every page of at most n nodes whose elements are drawn from kinds.
PagesOver(kinds, n) ==
    UNION {{[n |-> m, parent |-> p, elem |-> e] :
               p \in ParentVectors(m), e \in [1..m -> kinds]} : m \in 0..n}

NoAttrs == {}

\* Elements the listing locator tells apart.
LocatorKinds ==
    { Elem("div", <<<<"j","o","b","-","c","a","r","d">>>>, NoAttrs, <<>>, <<>>),
      Elem("li", <<<<"j","o","b","-","l","i","s","t","i","n","g">>>>, NoAttrs, <<>>, <<>>),
      Elem("span", <<<<"b","i","g">>, <<"v","a","c","a","n","c","y","-","i","t","e","m">>>>, NoAttrs, <<>>, <<>>),
      Elem("div", <<>>, NoAttrs, <<>>, <<"O","p","e","n"," ","P","o","s","i","t","i","o","n">>),
      Elem("div", <<<<"j","o","b">>>>, NoAttrs, <<>>, <<>>),
      Elem("li", <<>>, NoAttrs, <<>>, <<"V","a","c","a","n","c","y">>),
      Elem("h2", <<>>, NoAttrs, <<>>, <<"E","n","g","i","n","e","e","r">>),
      Elem("span", <<>>, NoAttrs, <<>>, <<"x">>) }

Listing == Elem("li", <<<<"j","o","b","-","l","i","s","t","i","n","g">>>>, NoAttrs, <<>>, <<>>)

\* What a listing may hold: a titled or blank heading, a link that resolves,
\* an anchor without href, a link whose href urljoin rejects.
ListingChildren ==
    { Elem("h2", <<>>, NoAttrs, <<>>, <<"E","n","g","i","n","e","e","r">>),
      Elem("h2", <<>>, NoAttrs, <<>>, <<" ">>),
      Elem("a", <<>>, {"href"}, <<"/","j","o","b","s","/","4","2">>, <<"A","p","p","l","y">>),
      Elem("a", <<>>, NoAttrs, <<>>, <<>>),
      Elem("a", <<>>, {"href"}, <<"h","t","t","p",":","/","/","[","b","a","d">>, <<>>) }

RECURSIVE ListingPage(_)
\* The page of the listings described by kids: kids[k] is the k-th listing's
\* only child, or <<>> for a listing without one.
ListingPage(kids) ==
    IF kids = <<>> THEN EmptyPage
    ELSE LET rest == ListingPage(SubSeq(kids, 1, Len(kids) - 1))
             last == kids[Len(kids)]
             li   == rest.n + 1
         IN  IF last = <<>>
             THEN [n |-> li, parent |-> Append(rest.parent, 0),
                   elem |-> Append(rest.elem, Listing)]
             ELSE [n |-> li + 1, parent |-> rest.parent \o <<0, li>>,
                   elem |-> rest.elem \o <<Listing, last[1]>>]

ListingPages ==
    UNION {{ListingPage(kids) :
               kids \in [1..m -> {<<>>} \union {<<c>> : c \in ListingChildren}]}
           : m \in 1..MaxListings}

\* Siblings that different strategies of the locator select.
FlatKinds ==
    { Elem("div", <<<<"j","o","b","-","c","a","r","d">>>>, NoAttrs, <<>>, <<>>),
      Elem("li", <<<<"j","o","b","-","l","i","s","t","i","n","g">>>>, NoAttrs, <<>>, <<>>),
      Elem("span", <<<<"b","i","g">>, <<"v","a","c","a","n","c","y","-","i","t","e","m">>>>, NoAttrs, <<>>, <<>>),
      Elem("div", <<>>, NoAttrs, <<>>, <<"O","p","e","n"," ","P","o","s","i","t","i","o","n">>) }

FlatPages ==
    UNION {{[n |-> m, parent |-> [i \in 1..m |-> 0], elem |-> e] :
               e \in [1..m -> FlatKinds]} : m \in 1..MaxFlat}

ScrapePages ==
    {Wrap(c) : c \in PagesOver(LocatorKinds, MaxNodes) \union FlatPages
                       \union ListingPages}

SourceUrl == <<"h","t","t","p","s",":","/","/","w","w","w",".","a","c","m","e",".","i","o","/","c","a","r","e","e","r","s">>

\* ------------------------------------------------------------ scrape_jobs, stepwise
InitScrape ==
    /\ pc = "parsed" /\ url = SourceUrl /\ page \in ScrapePages
    /\ el = 0 /\ ret = <<>> /\ job_elements = <<>> /\ located = ByNothing
    /\ raised = FALSE /\ wi = 0 /\ waited = 0 /\ changes = 0
    /\ urls = <<>> /\ cursor = 0 /\ scraped = <<>> /\ jobs_data = <<>>
    /\ saved = <<>>

\* The selector cascade and the pattern fallback over the parsed soup.
Locate ==
    /\ pc = "parsed"
    /\ job_elements' = LocateListings(page).elems
    /\ located' = LocateListings(page).by
    /\ pc' = "located"
    /\ UNCHANGED <<url, page, el, ret, raised, wi, waited, changes, urls,
                   cursor, scraped, jobs_data, saved>>

\* The loop over job_elements ran to its end: `return jobs`.
ReturnJobs ==
    /\ pc = "located"
    /\ ~ExtractFrom(page, job_elements, 1, url, <<>>).raised
    /\ ret' = ExtractFrom(page, job_elements, 1, url, <<>>).jobs
    /\ pc' = "returned"
    /\ UNCHANGED <<url, page, el, job_elements, located, raised, wi, waited,
                   changes, urls, cursor, scraped, jobs_data, saved>>

\* An exception left the loop: `except Exception` logs it and returns [].
ReturnOnException ==
    /\ pc = "located"
    /\ ExtractFrom(page, job_elements, 1, url, <<>>).raised
    /\ ret' = <<>>
    /\ raised' = TRUE
    /\ pc' = "returned"
    /\ UNCHANGED <<url, page, el, job_elements, located, wi, waited,
                   changes, urls, cursor, scraped, jobs_data, saved>>

Next == Locate \/ ReturnJobs \/ ReturnOnException

Spec == InitScrape /\ [][Next]_vars

\* ------------------------------------------------------------ properties of scrape_jobs
\* The candidates whose title resolves to non-empty text, in candidate order.
TitledCandidates ==
    SelectSeq(job_elements, LAMBDA j : extract_job_title(page, j) # <<>>)

\* C1: the list scrape_jobs returns is exactly the candidates with a
\* non-empty title, one record each, in candidate order.
C1_ReturnsExactlyTitled ==
    pc = "returned" =>
        /\ Len(ret) = Len(TitledCandidates)
        /\ \A k \in 1..Len(ret) :
              ret[k].title = extract_job_title(page, TitledCandidates[k])

\* The structural selectors that match at least one element of the page.
StructuralHits ==
    {k \in 1..NSelectors :
        \E j \in 1..page.n : Matches(page.elem[j], selectors[k])}

\* C2: the first structural selector, in list order, that matches anything
\* supplies the whole candidate set, all of its matches and nothing of a
\* later selector; the pattern fallback is used only when none of the 13
\* matches.
C2_FirstSelectorWins ==
    pc \in {"located", "returned"} =>
        IF StructuralHits # {}
        THEN /\ located = Min(StructuralHits)
             /\ job_elements =
                   InOrder({j \in 1..page.n :
                       Matches(page.elem[j], selectors[Min(StructuralHits)])})
        ELSE located \notin 1..NSelectors

\* C2 happens: selector 4 supplies two elements while a later selector also
\* matches an element that stays out of the candidate set.
C2_Witness ==
    /\ pc = "located" /\ located = 4 /\ Len(job_elements) = 2
    /\ \E j \in 1..page.n : /\ Matches(page.elem[j], selectors[13])
                            /\ j \notin Range(job_elements)

\* The div, article and li elements whose class list holds a keyword or
\* whose own lowercased text contains one.
KeywordElements ==
    {j \in 1..page.n :
        /\ page.elem[j].tag \in {"div", "article", "li"}
        /\ \E kw \in keywords :
              \/ kw \in Range(page.elem[j].cls)
              \/ Contains(Lower(page.elem[j].text), kw)}

\* C3: with no structural match, pattern (a) selects every element whose
\* class list or own lowercased text contains a keyword (two divs reading
\* "Open Position" are both returned), and pattern (b) is used only when
\* pattern (a) selects nothing.
C3_KeywordFallback ==
    (pc \in {"located", "returned"} /\ StructuralHits = {}) =>
        /\ KeywordElements # {} =>
              (located = ByPatternA /\ job_elements = InOrder(KeywordElements))
        /\ located = ByPatternB => KeywordElements = {}

\* C7: a failure in one field of one candidate empties that field only:
\* scrape_jobs still returns a record for every titled candidate, and the
\* record of the candidate whose URL could not be resolved has url "".
C7_FailureStaysInField ==
    pc = "returned" =>
        \A j \in Range(job_elements) :
            extract_job_title(page, j) # <<>> =>
                \E k \in 1..Len(ret) :
                    /\ ret[k].title = extract_job_title(page, j)
                    /\ extract_job_url(page, j, url).exc # "" =>
                           ret[k].url = <<>>

\* No structural selector and neither pattern matches any element.
NothingMatches ==
    /\ StructuralHits = {}
    /\ \A j \in 1..page.n : ~PatternA(page, j) /\ ~PatternB(page, j)

\* C8: a page nothing matches yields an empty candidate set and an empty
\* list, returned normally.
C8_EmptyPageIsNoError ==
    (pc = "returned" /\ NothingMatches) =>
        /\ job_elements = <<>> /\ located = ByNothing
        /\ ret = <<>> /\ ~raised

\* C8 happens: a page with elements, none of them a candidate, was scraped.
C8_Witness == pc = "returned" /\ ContentSize(page) = 2 /\ NothingMatches

\* ------------------------------------------------------------ the field cascades alone
Fields ==
    {"title", "location", "description", "date_posted", "department",
     "employment_type"}

FieldRules ==
    [title |-> title_selectors, location |-> location_selectors,
     description |-> desc_selectors, date_posted |-> date_selectors,
     department |-> dept_selectors, employment_type |-> type_selectors]

\* What a field is when no rule yields text.
Absent(f) == IF f = "date_posted" THEN None ELSE <<>>

\* Descendants the rules of the cascades tell apart.
FieldKinds ==
    { Elem("h2", <<>>, NoAttrs, <<>>, <<"E","n","g","i","n","e","e","r">>),
      Elem("h3", <<>>, NoAttrs, <<>>, <<" ">>),
      Elem("span", <<<<"j","o","b","-","t","i","t","l","e">>>>, NoAttrs, <<>>, <<" ","D","e","v"," ">>),
      Elem("span", <<<<"p","o","s","i","t","i","o","n","-","t","y","p","e">>>>, NoAttrs, <<>>, <<"F","u","l","l"," ","t","i","m","e">>),
      Elem("a", <<>>, {"href"}, <<"/","j","o","b","s","/","4","2">>, <<"A","p","p","l","y">>),
      Elem("span", <<<<"l","o","c","a","t","i","o","n">>>>, NoAttrs, <<>>, <<>>),
      Elem("span", <<<<"c","i","t","y">>>>, {"data-location"}, <<>>, <<"P","a","r","i","s">>),
      Elem("time", <<>>, {"datetime"}, <<>>, <<"2","0","2","4">>),
      Elem("p", <<<<"p","o","s","t","e","d","-","d","a","t","e">>, <<"s","u","m","m","a","r","y">>>>, NoAttrs, <<>>, <<"M","a","y">>) }

\* Every page made of one listing and at most MaxChildren descendants of it.
FieldPages ==
    UNION {{Wrap([n |-> m + 1,
                  parent |-> <<0>> \o [i \in 1..m |-> p[i] + 1],
                  elem |-> <<Listing>> \o e]) :
               p \in ParentVectors(m), e \in [1..m -> FieldKinds]}
           : m \in 0..MaxChildren}

InitField ==
    /\ pc = "element" /\ url = SourceUrl /\ page \in FieldPages /\ el = 3
    /\ ret = <<>> /\ job_elements = <<>> /\ located = ByNothing
    /\ raised = FALSE /\ wi = 0 /\ waited = 0 /\ changes = 0
    /\ urls = <<>> /\ cursor = 0 /\ scraped = <<>> /\ jobs_data = <<>>
    /\ saved = <<>>

\* The six cascades of the loop body of scrape_jobs, applied to el.
ExtractFields ==
    /\ pc = "element"
    /\ ret' = [title |-> extract_job_title(page, el),
               location |-> extract_location(page, el),
               description |-> extract_description(page, el),
               date_posted |-> extract_date_posted(page, el),
               department |-> extract_department(page, el),
               employment_type |-> extract_employment_type(page, el)]
    /\ pc' = "extracted"
    /\ UNCHANGED <<url, page, el, job_elements, located, raised, wi, waited,
                   changes, urls, cursor, scraped, jobs_data, saved>>

NextField == ExtractFields

SpecField == InitField /\ [][NextField]_vars

\* The rules of field f that yield non-empty text on el.
Yielding(f) ==
    {k \in 1..Len(FieldRules[f]) :
        ExtractText(page, el, FieldRules[f][k]) # <<>>}

\* rules with the a-th and the b-th exchanged.
Swap(rules, a, b) ==
    [k \in 1..Len(rules) |->
        IF k = a THEN rules[b] ELSE IF k = b THEN rules[a] ELSE rules[k]]

\* C4: every field is the trimmed text of the first rule, in listed order,
\* that yields non-empty text; rules that match nothing or match an element
\* with blank text are skipped, so exchanging two rules that yield nothing
\* changes no result; with no yielding rule the field is "" and date_posted
\* is None.
C4_FirstYieldingRule ==
    pc = "extracted" =>
        \A f \in Fields :
            /\ Yielding(f) = {} => ret[f] = Absent(f)
            /\ Yielding(f) # {} =>
                  /\ ret[f] = ExtractText(page, el,
                                  FieldRules[f][Min(Yielding(f))])
                  /\ ret[f] = Strip(ret[f]) /\ ret[f] # <<>>
            /\ \A a, b \in (1..Len(FieldRules[f])) \ Yielding(f) :
                  FirstText(page, el, Swap(FieldRules[f], a, b), 1, Absent(f))
                      = ret[f]

\* C4 happens: the first title rule matches a heading with blank text and is
\* skipped, a later rule supplies the title, and date_posted is absent.
C4_Witness ==
    /\ pc = "extracted"
    /\ SelectOne(page, el, title_selectors[1]) # 0
    /\ 1 \notin Yielding("title")
    /\ ret.title = <<"A","p","p","l","y">>
    /\ ret.date_posted = None

\* ------------------------------------------------------------ _extract_job_url alone
Div == Elem("div", <<>>, NoAttrs, <<>>, <<>>)

GoodLink == Elem("a", <<>>, {"href"}, <<"/","j","o","b","s","/","4","2">>, <<"A","p","p","l","y">>)

\* Anchors a chain element may hold: with an href that resolves (relative or
\* absolute), without href, with an href urljoin rejects.
AnchorKinds ==
    { GoodLink,
      Elem("a", <<>>, {"href"}, <<"h","t","t","p","s",":","/","/","o","t","h","e","r",".","c","o","m","/","x">>, <<"M","o","r","e">>),
      Elem("a", <<<<"a","n","c","h","o","r">>>>, NoAttrs, <<>>, <<>>),
      Elem("a", <<>>, {"href"}, <<"h","t","t","p",":","/","/","[","b","a","d">>, <<>>) }

AnchorOptions == {<<>>} \union {<<a>> : a \in AnchorKinds}

\* The items of a chain page in document order. Chain element k is item
\* <<"div", k>>; its anchor, if any, is <<"a", k>> and comes right after it
\* (before) or after the whole subtree of chain element k + 1; the innermost
\* element has a second anchor <<"a2", d>> when extra is one.
RECURSIVE ChainItems(_, _, _, _, _)
ChainItems(k, d, anch, extra, before) ==
    LET own == IF anch[k] = <<>> THEN <<>> ELSE << <<"a", k>> >>
        second == IF extra = <<>> THEN <<>> ELSE << <<"a2", d>> >>
    IN  IF k = d THEN << <<"div", k>> >> \o own \o second
        ELSE IF before
        THEN << <<"div", k>> >> \o own
             \o ChainItems(k + 1, d, anch, extra, before)
        ELSE << <<"div", k>> >> \o ChainItems(k + 1, d, anch, extra, before)
             \o own

IndexOf(items, it) == CHOOSE i \in 1..Len(items) : items[i] = it

\* The page of a chain of d nested divs with the given anchors.
ChainPage(d, anch, extra, before) ==
    LET items == ChainItems(1, d, anch, extra, before)
    IN  Wrap([n |-> Len(items),
              parent |-> [i \in 1..Len(items) |->
                  IF items[i][1] = "div"
                  THEN IF items[i][2] = 1 THEN 0
                       ELSE IndexOf(items, <<"div", items[i][2] - 1>>)
                  ELSE IndexOf(items, <<"div", items[i][2]>>)],
              elem |-> [i \in 1..Len(items) |->
                  IF items[i][1] = "div" THEN Div
                  ELSE IF items[i][1] = "a" THEN anch[items[i][2]][1]
                  ELSE extra[1]]])

\* el is the innermost div of a chain page, or the body itself (a candidate
\* patterns[1] may select), whose ancestors end before the third level.
InitUrl ==
    /\ \E d \in 1..MaxDepth, before \in BOOLEAN :
       \E anch \in [1..d -> AnchorOptions], extra \in {<<>>, <<GoodLink>>} :
          /\ page = ChainPage(d, anch, extra, before)
          /\ \/ el = 2 + IndexOf(ChainItems(1, d, anch, extra, before),
                                  <<"div", d>>)
             \/ el = 2
    /\ pc = "element" /\ url = SourceUrl
    /\ ret = <<>> /\ job_elements = <<>> /\ located = ByNothing
    /\ raised = FALSE /\ wi = 0 /\ waited = 0 /\ changes = 0
    /\ urls = <<>> /\ cursor = 0 /\ scraped = <<>> /\ jobs_data = <<>>
    /\ saved = <<>>

\* _extract_job_url(el, url) returned.
UrlReturned ==
    /\ pc = "element"
    /\ extract_job_url(page, el, url).exc = ""
    /\ ret' = extract_job_url(page, el, url)
    /\ pc' = "url_done"
    /\ UNCHANGED <<url, page, el, job_elements, located, raised, wi, waited,
                   changes, urls, cursor, scraped, jobs_data, saved>>

\* An exception left _extract_job_url(el, url).
UrlRaised ==
    /\ pc = "element"
    /\ extract_job_url(page, el, url).exc # ""
    /\ ret' = extract_job_url(page, el, url)
    /\ raised' = TRUE
    /\ pc' = "url_done"
    /\ UNCHANGED <<url, page, el, job_elements, located, wi, waited,
                   changes, urls, cursor, scraped, jobs_data, saved>>

NextUrl == UrlReturned \/ UrlRaised

SpecUrl == InitUrl /\ [][NextUrl]_vars

\* The element, its parent, grandparent and great-grandparent.
Scopes ==
    << el, ParentOf(page, el), ParentOf(page, ParentOf(page, el)),
       ParentOf(page, ParentOf(page, ParentOf(page, el))) >>

\* The links under x: its anchor descendants that carry an href.
LinksUnder(x) ==
    {j \in Descendants(page, x) :
        page.elem[j].tag = "a" /\ "href" \in page.elem[j].attrs}

ScopesWithLink == {s \in 1..4 : LinksUnder(Scopes[s]) # {}}

\* Every href of the page is one urljoin resolves.
AllHrefsResolve ==
    \A j \in 1..page.n :
        "href" \in page.elem[j].attrs =>
            urljoin(url, page.elem[j].href).exc = ""

\* C5: the link is looked for in the element, then in its parent,
\* grandparent and great-grandparent; the first of them that holds a link
\* gives the result, that link's href resolved against the source URL, and
\* the result is "" when none of the four holds a link. (Stated for pages
\* all of whose hrefs resolve.)
C5_FirstLinkUpTheTree ==
    (pc = "url_done" /\ AllHrefsResolve) =>
        /\ ret.exc = ""
        /\ ret.val =
              IF ScopesWithLink = {} THEN <<>>
              ELSE urljoin(url,
                     page.elem[Min(LinksUnder(Scopes[Min(ScopesWithLink)]))].href).val

\* ------------------------------------------------------------ _extract_company_name alone
Labels == {<<"w","w","w">>, <<"a","c","m","e">>, <<"a","w","w","w">>, <<"J","o","b","s">>}

Schemes == {<<"h","t","t","p","s",":","/","/">>, <<"h","t","t","p",":","/","/">>, <<>>}

Paths == {<<>>, <<"/","c","a","r","e","e","r","s">>}

CompanyUrls ==
    UNION {{s \o Join(ls, <<".">>) \o p :
               s \in Schemes, ls \in [1..m -> Labels], p \in Paths}
           : m \in 1..MaxLabels}

InitCompany ==
    /\ pc = "url" /\ url \in CompanyUrls /\ page = EmptyPage /\ el = 0
    /\ ret = <<>> /\ job_elements = <<>> /\ located = ByNothing
    /\ raised = FALSE /\ wi = 0 /\ waited = 0 /\ changes = 0
    /\ urls = <<>> /\ cursor = 0 /\ scraped = <<>> /\ jobs_data = <<>>
    /\ saved = <<>>

\* _extract_company_name(url)
CompanyName ==
    /\ pc = "url"
    /\ ret' = extract_company_name(url)
    /\ pc' = "company_done"
    /\ UNCHANGED <<url, page, el, job_elements, located, raised, wi, waited,
                   changes, urls, cursor, scraped, jobs_data, saved>>

NextCompany == CompanyName

SpecCompany == InitCompany /\ [][NextCompany]_vars

\* The host of a url: between the scheme separator and the next "/".
HostOf(u) == Split(Split(u, <<"/","/">>)[2], <<"/">>)[1]

\* The host without a leading "www." label.
WithoutLeadingWww(h) ==
    IF StartsWith(h, <<"w","w","w",".">>) THEN SubSeq(h, 5, Len(h)) ELSE h

\* C6: the company is the capitalized first label of the host once the
\* scheme and a leading www. label, and only a leading one, are stripped;
\* a url without a scheme separator is returned unchanged.
C6_CompanyFromHost ==
    pc = "company_done" =>
        ret = IF Contains(url, <<"/","/">>)
              THEN Capitalize(Split(WithoutLeadingWww(HostOf(url)), <<".">>)[1])
              ELSE url

\* ------------------------------------------------------------ the readiness wait
\* Elements of the live page: Playwright waits for a visible match, the
\* parsed content holds hidden elements as well.
LiveKinds ==
    { Elem("div", <<<<"j","o","b","-","c","a","r","d">>>>, NoAttrs, <<>>, <<>>),
      Hidden(Elem("div", <<<<"j","o","b","-","c","a","r","d">>>>, NoAttrs, <<>>, <<>>)),
      Elem("li", <<<<"j","o","b","-","l","i","s","t","i","n","g">>>>, NoAttrs, <<>>, <<>>),
      Elem("span", <<<<"v","a","c","a","n","c","y","-","i","t","e","m">>>>, NoAttrs, <<>>, <<>>) }

LivePages ==
    UNION {{Wrap([n |-> m, parent |-> [i \in 1..m |-> 0], elem |-> e]) :
               e \in [1..m -> LiveKinds]} : m \in 0..MaxLive}

\* page.wait_for_selector(selectors[k]) finds a match in its default state,
\* visible.
VisibleMatch(pg, k) ==
    \E j \in 1..pg.n : pg.elem[j].visible /\ Matches(pg.elem[j], selectors[k])

InitWait ==
    /\ pc = "wait" /\ url = SourceUrl /\ page \in LivePages /\ el = 0
    /\ ret = <<>> /\ job_elements = <<>> /\ located = ByNothing
    /\ raised = FALSE /\ wi = 1 /\ waited = 0 /\ changes = 0
    /\ urls = <<>> /\ cursor = 0 /\ scraped = <<>> /\ jobs_data = <<>>
    /\ saved = <<>>

\* wait_for_selector returned: `break`.
WaitFound ==
    /\ pc = "wait" /\ VisibleMatch(page, wi)
    /\ waited' = wi
    /\ pc' = "loaded"
    /\ UNCHANGED <<url, page, el, ret, job_elements, located, raised, wi,
                   changes, urls, cursor, scraped, jobs_data, saved>>

\* wait_for_selector timed out: `continue` with the next selector, or leave
\* the loop after the last.
WaitTimeout ==
    /\ pc = "wait" /\ ~VisibleMatch(page, wi)
    /\ IF wi = NSelectors THEN pc' = "loaded" /\ wi' = wi
       ELSE pc' = pc /\ wi' = wi + 1
    /\ UNCHANGED <<url, page, el, ret, job_elements, located, raised, waited,
                   changes, urls, cursor, scraped, jobs_data, saved>>

\* The page's scripts add an element to the body while scrape_jobs waits or before it
\* reads the content.
DomAppend ==
    /\ pc \in {"wait", "loaded"} /\ changes < MaxChanges
    /\ ContentSize(page) < MaxLive
    /\ \E e \in LiveKinds :
          page' = [n |-> page.n + 1, parent |-> Append(page.parent, 2),
                   elem |-> Append(page.elem, e)]
    /\ changes' = changes + 1
    /\ UNCHANGED <<pc, url, el, ret, job_elements, located, raised, wi,
                   waited, urls, cursor, scraped, jobs_data, saved>>

\* The page's scripts remove its last element.
DomRemove ==
    /\ pc \in {"wait", "loaded"} /\ changes < MaxChanges
    /\ ContentSize(page) > 0
    /\ page' = [n |-> page.n - 1,
                parent |-> SubSeq(page.parent, 1, page.n - 1),
                elem |-> SubSeq(page.elem, 1, page.n - 1)]
    /\ changes' = changes + 1
    /\ UNCHANGED <<pc, url, el, ret, job_elements, located, raised, wi,
                   waited, urls, cursor, scraped, jobs_data, saved>>

\* page.content() is parsed and the locator runs over the soup.
SnapshotAndLocate ==
    /\ pc = "loaded"
    /\ job_elements' = LocateListings(page).elems
    /\ located' = LocateListings(page).by
    /\ pc' = "located"
    /\ UNCHANGED <<url, page, el, ret, raised, wi, waited, changes, urls,
                   cursor, scraped, jobs_data, saved>>

NextWait ==
    WaitFound \/ WaitTimeout \/ DomAppend \/ DomRemove \/ SnapshotAndLocate

SpecWait == InitWait /\ [][NextWait]_vars

\* The structural selector the locator used, 0 when it used none.
LocatedSelector == IF located \in 1..NSelectors THEN located ELSE 0

\* C9 as stated: whatever the page does meanwhile, the selector the wait
\* succeeded on is the selector the locator uses.
C9_WaitedIsLocated ==
    (pc = "located" /\ waited # 0) => located = waited

\* C9 amended: on a page that does not change from the start of the wait to
\* the content snapshot and that hides none of its elements, the selector
\* the wait succeeded on is the selector the locator uses, and the locator
\* uses no structural selector when every wait timed out.
C9_StaticPageWaitedIsLocated ==
    (pc = "located" /\ changes = 0
        /\ \A j \in 1..page.n : page.elem[j].visible) =>
            waited = LocatedSelector

\* The amended C9 happens: on an unchanged, fully visible page the wait timed
\* out on selectors 1 to 3 and succeeded on the 4th, which the locator used
\* although selector 13 matches as well.
C9_Witness ==
    /\ pc = "located" /\ changes = 0 /\ waited = 4 /\ located = 4
    /\ \A j \in 1..page.n : page.elem[j].visible
    /\ \E j \in 1..page.n : Matches(page.elem[j], selectors[13])

\* ------------------------------------------------------------ run
UrlAcme == SourceUrl

UrlBeta == <<"h","t","t","p","s",":","/","/","b","e","t","a",".","c","o","m","/","j","o","b","s">>

UrlGamma == <<"h","t","t","p","s",":","/","/","g","a","m","m","a",".","o","r","g">>

\* The parsed content each career URL serves: two titled listings; a listing
\* whose link urljoin rejects, so that the scrape fails; one titled listing.
Web(u) ==
    Wrap(IF u = UrlAcme
         THEN ListingPage(<< <<Elem("h2", <<>>, NoAttrs, <<>>, <<"E","n","g","i","n","e","e","r">>)>>,
                             <<GoodLink>> >>)
         ELSE IF u = UrlBeta
         THEN ListingPage(<< <<Elem("h2", <<>>, NoAttrs, <<>>, <<"A","n","a","l","y","s","t">>)>>,
                             <<Elem("a", <<>>, {"href"}, <<"h","t","t","p",":","/","/","[","b","a","d">>, <<"G","o">>)>> >>)
         ELSE ListingPage(<< <<Elem("h2", <<>>, NoAttrs, <<>>, <<"D","e","s","i","g","n","e","r">>)>> >>))

\* The lists load_config may return; [] stands for every failure to read it.
Configs ==
    UNION {[1..m -> {UrlAcme, UrlBeta, UrlGamma}] : m \in 0..MaxUrls}

InitRun ==
    /\ pc = "run" /\ urls \in Configs /\ cursor = 0 /\ scraped = <<>>
    /\ jobs_data = <<>> /\ saved = <<>>
    /\ url = <<>> /\ page = EmptyPage /\ el = 0 /\ ret = <<>>
    /\ job_elements = <<>> /\ located = ByNothing /\ raised = FALSE
    /\ wi = 0 /\ waited = 0 /\ changes = 0

\* A faulty variant of Extend: puts the new records in front.
ExtendInFront(data, jobs) == jobs \o data

\* self.jobs_data.extend(jobs)
Extend(data, jobs) == data \o jobs

\* load_config, and the early return on an empty list.
LoadConfig ==
    /\ pc = "run"
    /\ IF urls = <<>> THEN pc' = "done" /\ cursor' = cursor
       ELSE pc' = "loop" /\ cursor' = 1
    /\ UNCHANGED <<url, page, el, ret, job_elements, located, raised, wi,
                   waited, changes, urls, scraped, jobs_data, saved>>

\* One iteration of `for url in urls`.
ScrapeNext ==
    /\ pc = "loop" /\ cursor <= Len(urls)
    /\ scraped' = Append(scraped, urls[cursor])
    /\ jobs_data' =
          Extend(jobs_data, scrape_jobs(Web(urls[cursor]), urls[cursor]).jobs)
    /\ cursor' = cursor + 1
    /\ UNCHANGED <<pc, url, page, el, ret, job_elements, located, raised, wi,
                   waited, changes, urls, saved>>

\* save_to_csv after the loop: a file is written unless jobs_data is empty.
SaveToCsv ==
    /\ pc = "loop" /\ cursor > Len(urls)
    /\ saved' = Append(saved, [written |-> jobs_data # <<>>, rows |-> jobs_data])
    /\ pc' = "done"
    /\ UNCHANGED <<url, page, el, ret, job_elements, located, raised, wi,
                   waited, changes, urls, cursor, scraped, jobs_data>>

NextRun == LoadConfig \/ ScrapeNext \/ SaveToCsv

SpecRun == InitRun /\ [][NextRun]_vars

\* What scrape_jobs returns for the first k configured urls, concatenated.
RECURSIVE ResultsUpTo(_)
ResultsUpTo(k) ==
    IF k = 0 THEN <<>>
    ELSE ResultsUpTo(k - 1) \o scrape_jobs(Web(urls[k]), urls[k]).jobs

\* C10: run scrapes the configured urls once each in config order, a failed
\* scrape adds nothing and stops nothing, save_to_csv is called once and only
\* after the last url, and what it is given is the per-url results
\* concatenated in config order.
C10_RunAccumulatesInOrder ==
    /\ scraped = SubSeq(urls, 1, Len(scraped))
    /\ jobs_data = ResultsUpTo(Len(scraped))
    /\ Len(saved) <= 1
    /\ saved # <<>> => (pc = "done" /\ scraped = urls)
    /\ (pc = "done" /\ urls # <<>>) =>
          /\ scraped = urls
          /\ Len(saved) = 1
          /\ saved[1].rows = ResultsUpTo(Len(urls))
          /\ \A k \in 1..Len(saved[1].rows) :
                ~scrape_jobs(Web(saved[1].rows[k].source_url),
                             saved[1].rows[k].source_url).raised

\* C10 happens: three urls were scraped, the second one failed, the third
\* still contributed, and the data was saved.
C10_Witness ==
    /\ pc = "done" /\ urls = <<UrlAcme, UrlBeta, UrlGamma>>
    /\ scrape_jobs(Web(UrlBeta), UrlBeta).raised
    /\ saved # <<>> /\ saved[1].written
    /\ Len(saved[1].rows) = 3
    /\ saved[1].rows[3].source_url = UrlGamma

====
